---------------------------- MODULE Spec2Model ----------------------------
(***************************************************************************)
(* Freediving buoyancy model and lead-weight optimiser                     *)
(* (src/freediving.py, src/diving_lead_optimizer.py).                      *)
(*                                                                         *)
(* Number representation.  The program computes in floating point; the     *)
(* model computes in exact fixed-point / rational arithmetic:              *)
(*   - depths are integers in units of 1/StepsPerMetre metre;              *)
(*   - masses and volumes are grams and cm^3, a net force is an integer    *)
(*     number of ForceQuantum grams-force (rounded down);                  *)
(*   - a lead weight is an integer number of WeightUnit grams;             *)
(*   - an energy is an integer numerator over the fixed denominator        *)
(*     EnergyDen (watt-hours);                                             *)
(*   - the quadratic fit returns exact rationals [num, den], den > 0;      *)
(*     den = 0 stands for the result of a division by zero (inf / nan).    *)
(* Python sequences are 0-based, the sequences here are 1-based.           *)
(***************************************************************************)
EXTENDS Integers, Sequences, FiniteSets, TLC

VARIABLES params, call, ret

vars == <<params, call, ret>>

(***************************************************************************)
(* Bounds of the model                                                     *)
(***************************************************************************)
\* number of points of the depth grid (500 in the program)
GridPoints == 6
\* number of candidate weights of the default sweep (60 in the program)
DefaultWeightCount == 12
\* grams per unit of lead weight (the default sweep's step; 200 g in the program)
WeightUnit == 1000
\* grams-force per unit of net force (resolution of the fixed-point force)
ForceQuantum == 100
\* largest max_depth (metres) handed to optimal_weight_vs_depth
MaxSweepDepth == 3

(***************************************************************************)
(* Program constants                                                       *)
(***************************************************************************)
\* depth units per metre: the sweep of optimal_weight_vs_depth steps by 0.5 m
StepsPerMetre == 2
\* 9.81 N per kgf, in hundredths
Gravity100 == 981
\* joules per watt-hour
JoulesPerWh == 3600
\* a watt-hour numerator counts 1/WhScale of the unit of a joule numerator
WhScale == 400
\* density of lead, kg/m^3
LeadDensity == 11340
\* salinity of sea water, parts per thousand
SeaSalinity == 35

LungConditions == <<"full_lung", "medium_lung", "empty_lung">>

Abs(x) == IF x < 0 THEN -x ELSE x

\* the element of a one-element set: TheOne({e(v) : v \in {d}}) is e(d)
TheOne(S) == CHOOSE v \in S : TRUE

Max(a, b) == IF a >= b THEN a ELSE b

(***************************************************************************)
(* Exact rationals, standing for the program's floats                      *)
(***************************************************************************)
RECURSIVE GCD(_, _)
GCD(a, b) == IF b = 0 THEN a ELSE GCD(b, a % b)

Rat(n, d) ==
    IF d = 0 THEN [num |-> n, den |-> 0]
    ELSE LET g == GCD(Abs(n), Abs(d))
             s == IF d < 0 THEN -1 ELSE 1
         IN  [num |-> s * (n \div g), den |-> s * (d \div g)]

RatInt(n) == [num |-> n, den |-> 1]

RatNeg(a) == [num |-> -a.num, den |-> a.den]

RatAdd(a, b) ==
    LET g == GCD(a.den, b.den)
    IN  IF g = 0 THEN [num |-> 0, den |-> 0]
        ELSE Rat(a.num * (b.den \div g) + b.num * (a.den \div g),
                 (a.den \div g) * b.den)

RatSub(a, b) == RatAdd(a, RatNeg(b))

RatMul(a, b) ==
    LET x == Rat(a.num, b.den)
        y == Rat(b.num, a.den)
    IN  Rat(x.num * y.num, x.den * y.den)

\* a / b
RatDiv(a, b) ==
    IF b.num = 0 \/ b.den = 0 \/ a.den = 0 THEN [num |-> a.num, den |-> 0]
    ELSE RatMul(a, Rat(b.den, b.num))

RatLeq(a, b) == a.num * b.den <= b.num * a.den

RatFinite(a) == a.den # 0

(***************************************************************************)
(* freediving.py                                                           *)
(***************************************************************************)
\* density in units of 0.0001 g/cm^3: 1.000 + 0.0008 s - 0.0003 t
calculate_seawater_density(salinity, temperature) ==
    10000 + 8 * salinity - 3 * temperature

\* density in units of 0.1 kg/m^3
get_salinity_and_density(water_type, temperature) ==
    LET salinity == IF water_type = "sea" THEN SeaSalinity ELSE 0
    IN  calculate_seawater_density(salinity, temperature)

\* np.linspace(0, y_limit, GridPoints), rounded down to the depth unit
DepthGrid(y_limit) ==
    [i \in 1..GridPoints |-> (y_limit * (i - 1)) \div (GridPoints - 1)]

\* a variant of LungVolumeAtDepth: the lung grows with depth,
\* rv + (lung_volume_cm3 - rv) * (1 + d / 10)
LungVolumeAtDepth_expanding(rv, lung_volume_cm3, d) ==
    rv + ((lung_volume_cm3 - rv) * (10 * StepsPerMetre + d))
             \div (10 * StepsPerMetre)

\* lung volume (cm^3) at depth d: rv + (lung_volume_cm3 - rv) / (1 + d / 10)
LungVolumeAtDepth(rv, lung_volume_cm3, d) ==
    rv + ((lung_volume_cm3 - rv) * 10 * StepsPerMetre)
             \div (10 * StepsPerMetre + d)

\* net force in grams-force at depth d (depth units) for one lung volume
NetForceGrams(p, lung_volume, d) ==
    IF d < 0
    THEN -(p.mass * 1000) - p.wetsuit_mass
    ELSE
      LET lung_volume_cm3 == lung_volume * 100
          rv == p.residual_volume
          lung_volume_at_depth == LungVolumeAtDepth(rv, lung_volume_cm3, d)
          volume_fat == (p.mass * p.body_fat_percentage * 1000) \div 90
          volume_lean == (p.mass * (100 - p.body_fat_percentage) * 1000) \div 110
          wetsuit_volume_surface == (p.wetsuit_mass * 100) \div p.wetsuit_density
          wetsuit_volume_at_depth ==
              (wetsuit_volume_surface
                  * (1000 * StepsPerMetre - p.wetsuit_compressibility_factor * d))
                \div (1000 * StepsPerMetre)
          snorkel_volume == p.snorkel_mask_volume
          lead_grams == p.lead_weight * WeightUnit
          weight_volume_cm3 == (lead_grams * 1000) \div LeadDensity
          total_displacement_volume ==
                (volume_fat * 1000 * StepsPerMetre) \div (1000 * StepsPerMetre + d)
              + (volume_lean * 2000 * StepsPerMetre) \div (2000 * StepsPerMetre + d)
              + lung_volume_at_depth
              + wetsuit_volume_at_depth
              + snorkel_volume
              + weight_volume_cm3
          F_buoyancy == (total_displacement_volume * p.seawater_density) \div 10000
          F_weight == p.mass * 1000 + p.wetsuit_mass + lead_grams
      IN  F_buoyancy - F_weight

\* net_force_kgf, in units of ForceQuantum grams-force
NetForce(p, lung_volume, d) == NetForceGrams(p, lung_volume, d) \div ForceQuantum

\* params["seawater_density"] = ...: the assignment adds the key when it is absent
SetDensity(p) ==
    [k \in DOMAIN p \cup {"seawater_density"} |->
        IF k = "seawater_density"
        THEN get_salinity_and_density(p.water_type, p.temperature)
        ELSE p[k]]

\* the force curve of every lung condition over the depth grid (the loops of
\* plot_net_force_kgf); q is the dict with its density set
ForceCurves(q, depths) ==
    [c \in DOMAIN q.lung_volumes |->
        <<>> \o [i \in 1..Len(depths) |-> NetForce(q, q.lung_volumes[c], depths[i])]]

\* plot_net_force_kgf(params, plot=False): the dict it was handed, as it
\* leaves it, and the two values it returns
plot_net_force_kgf(p) ==
    TheOne({[params |-> q, depths |-> depths,
             net_force_curves |-> ForceCurves(q, depths)] :
               q \in {SetDensity(p)}, depths \in {DepthGrid(p.y_limit)}})

(***************************************************************************)
(* diving_lead_optimizer.py: energy_use                                    *)
(***************************************************************************)
\* arr[depths <= depth]: the entries of arr at the positions of the depths
\* that are at most depth, in order
Masked(arr, depths, depth) ==
    TheOne({<<>> \o [k \in 1..Len(ids) |-> arr[ids[k]]] :
              ids \in {SelectSeq([i \in 1..Len(depths) |-> i],
                                 LAMBDA i : depths[i] <= depth)}})

\* a variant of DescentWork without the test of the sign of the force
DescentWork_unsigned(force_kgf, distance) ==
    force_kgf * Gravity100 * Abs(distance)

\* one step of the downward loop: the work against a positive (upward) force
DescentWork(force_kgf, distance) ==
    IF force_kgf * Gravity100 > 0
    THEN force_kgf * Gravity100 * Abs(distance)
    ELSE 0

\* a variant of AscentWork that tests the sign of the downward loop
AscentWork_positive(force_kgf, distance) ==
    IF force_kgf * Gravity100 > 0
    THEN Abs(force_kgf * Gravity100 * distance)
    ELSE 0

\* one step of the upward loop: the work against a negative (downward) force
AscentWork(force_kgf, distance) ==
    IF force_kgf * Gravity100 < 0
    THEN Abs(force_kgf * Gravity100 * distance)
    ELSE 0

\* the downward loop, then the upward loop: energy_deltas
EnergyDeltas(relevant_depths, relevant_forces) ==
    LET n == Len(relevant_depths)
    IN  [i \in 1..(n - 1) |->
            DescentWork(relevant_forces[i],
                        relevant_depths[i + 1] - relevant_depths[i])]
        \o
        [k \in 1..(n - 1) |->
            AscentWork(relevant_forces[n - k + 1],
                       relevant_depths[n - k + 1] - relevant_depths[n - k])]

\* combined_depths: the depth the diver is at after each step
CombinedDepths(relevant_depths) ==
    LET n == Len(relevant_depths)
    IN  <<relevant_depths[1]>>
          \o [i \in 1..(n - 1) |-> relevant_depths[i + 1]]
          \o [k \in 1..(n - 1) |-> relevant_depths[n - k]]

\* np.array(energy_deltas) / 3600, elementwise
ToWattHours(energy_deltas) ==
    <<>> \o [k \in 1..Len(energy_deltas) |->
                (energy_deltas[k] * WhScale) \div JoulesPerWh]

\* np.cumsum
RECURSIVE CumSum(_)
CumSum(arr) ==
    IF Len(arr) = 0 THEN <<>>
    ELSE TheOne({Append(head, (IF Len(head) = 0 THEN 0 ELSE head[Len(head)])
                                 + arr[Len(arr)]) :
                   head \in {CumSum(SubSeq(arr, 1, Len(arr) - 1))}})

\* np.concatenate([[0], np.cumsum(energy_deltas_wh)])
CumulativeEnergy(relevant_depths, relevant_forces) ==
    TheOne({<<0>> \o CumSum(energy_deltas_wh) :
              energy_deltas_wh \in
                 {ToWattHours(EnergyDeltas(relevant_depths, relevant_forces))}})

\* energy_use from the selection on: raised is the IndexError of
\* relevant_depths[0] on an empty selection
Integrate(q, relevant_depths, relevant_forces) ==
    IF Len(relevant_depths) = 0
    THEN [raised |-> TRUE, params |-> q]
    ELSE TheOne({[raised |-> FALSE, params |-> q,
                  relevant_depths |-> relevant_depths,
                  relevant_forces |-> relevant_forces,
                  combined_depths |-> CombinedDepths(relevant_depths),
                  cumulative_energy_wh |-> cumulative_energy_wh,
                  value |-> cumulative_energy_wh[Len(cumulative_energy_wh)]] :
                   cumulative_energy_wh \in
                      {CumulativeEnergy(relevant_depths, relevant_forces)}})

\* energy_use(params, depth, lung_condition, plot=False).  params: the dict
\* handed in, as the call leaves it.
energy_use(p, depth, lung_condition) ==
    TheOne({TheOne({Integrate(r.params, relevant_depths, relevant_forces) :
                      relevant_depths \in {Masked(r.depths, r.depths, depth)},
                      relevant_forces \in
                         {Masked(r.net_force_curves[lung_condition], r.depths, depth)}}) :
              r \in {plot_net_force_kgf(p)}})

(***************************************************************************)
(* diving_lead_optimizer.py: energy_vs_weight                              *)
(***************************************************************************)
\* np.arange(0, 12, 0.2), in weight units
DefaultWeights == [i \in 1..DefaultWeightCount |-> i - 1]

\* a variant of DictCopy: no copy, the probe writes into the caller's dict
DictCopy_alias(p) == [dict |-> p, same_object |-> TRUE]

\* params.copy(): the items of p in a dict of its own.  same_object says
\* whether a write to the result is a write to p itself.
DictCopy(p) == [dict |-> p, same_object |-> FALSE]

\* one pass of the inner loop for one candidate weight.  caller: the dict
\* energy_vs_weight was handed, as the pass leaves it.
Probe(caller, weight, depth, lung_condition) ==
    TheOne({TheOne({[caller |-> IF c.same_object THEN r.params ELSE caller,
                     raised |-> r.raised,
                     energy |-> IF r.raised THEN 0 ELSE r.value] :
                       r \in {energy_use([c.dict EXCEPT !.lead_weight = weight],
                                         depth, lung_condition)}}) :
              c \in {DictCopy(caller)}})

\* the inner loop after its first k candidate weights
RECURSIVE WeightLoop(_, _, _, _, _)
WeightLoop(caller, weights, k, depth, lung_condition) ==
    IF k = 0
    THEN [caller |-> caller, raised |-> FALSE, energies |-> <<>>]
    ELSE TheOne({
           IF prev.raised THEN prev
           ELSE TheOne({[caller |-> pr.caller,
                         raised |-> pr.raised,
                         energies |-> IF pr.raised THEN prev.energies
                                      ELSE Append(prev.energies, pr.energy)] :
                          pr \in {Probe(prev.caller, weights[k], depth, lung_condition)}}) :
           prev \in {WeightLoop(caller, weights, k - 1, depth, lung_condition)}})

\* np.argmin: the first position of the smallest entry
ArgMin(arr) ==
    CHOOSE i \in 1..Len(arr) :
        /\ \A j \in 1..Len(arr) : arr[i] <= arr[j]
        /\ \A j \in 1..(i - 1) : arr[j] > arr[i]

\* the test for a minimum on the boundary of the candidate list
OnBoundary(min_idx, n) == min_idx = 1 \/ min_idx = n

\* np.polyfit([x1, x2, x3], [y1, y2, y3], 2): the coefficients a, b, c of
\* the parabola through the three points
PolyFit2(x1, x2, x3, y1, y2, y3) ==
    LET D == (x1 - x2) * (x1 - x3) * (x2 - x3)
        A == x3 * (y2 - y1) + x2 * (y1 - y3) + x1 * (y3 - y2)
        B == x3 * x3 * (y1 - y2) + x2 * x2 * (y3 - y1) + x1 * x1 * (y2 - y3)
        C == x2 * x3 * (x2 - x3) * y1 + x3 * x1 * (x3 - x1) * y2
               + x1 * x2 * (x1 - x2) * y3
    IN  [a |-> Rat(A, D), b |-> Rat(B, D), c |-> Rat(C, D)]

\* a variant of PolyVal that reads the coefficients in the reverse order
PolyVal_reversed(coeffs, x) ==
    RatAdd(RatMul(RatAdd(RatMul(coeffs.c, x), coeffs.b), x), coeffs.a)

\* np.polyval(coeffs, x)
PolyVal(coeffs, x) ==
    RatAdd(RatMul(RatAdd(RatMul(coeffs.a, x), coeffs.b), x), coeffs.c)

\* a variant of Vertex without the factor 2: -b / a
Vertex_unhalved(coeffs) == RatDiv(RatNeg(coeffs.b), coeffs.a)

\* the vertex of the parabola: -b / (2 * a)
Vertex(coeffs) == RatDiv(RatNeg(coeffs.b), RatMul(RatInt(2), coeffs.a))

\* a variant of BoundaryOptimum that always reports the first candidate
BoundaryOptimum_first(weights, energies, min_idx) ==
    [optimal_weight |-> RatInt(weights[1]),
     minimum_energy |-> RatInt(energies[1])]

\* the minimum on the boundary: that candidate and its energy
BoundaryOptimum(weights, energies, min_idx) ==
    [optimal_weight |-> RatInt(weights[min_idx]),
     minimum_energy |-> RatInt(energies[min_idx])]

\* the minimum inside: quadratic interpolation through three points
InteriorOptimum(weights, energies, min_idx) ==
    TheOne({TheOne({[optimal_weight |-> optimal_weight,
                     minimum_energy |-> IF RatFinite(optimal_weight)
                                        THEN PolyVal(coeffs, optimal_weight)
                                        ELSE [num |-> 0, den |-> 0]] :
                       optimal_weight \in {Vertex(coeffs)}}) :
              coeffs \in {PolyFit2(weights[min_idx - 1], weights[min_idx],
                                   weights[min_idx + 1], energies[min_idx - 1],
                                   energies[min_idx], energies[min_idx + 1])}})

\* from np.argmin to the stored result, for one lung condition.  raised:
\* np.argmin of an empty array ends in ValueError.
FindOptimum(weights, energies) ==
    IF Len(energies) = 0 THEN [raised |-> TRUE]
    ELSE TheOne({TheOne({[raised |-> FALSE,
                          weights |-> weights,
                          energies |-> energies,
                          optimal_weight |-> opt.optimal_weight,
                          minimum_energy |-> opt.minimum_energy] :
                            opt \in {IF OnBoundary(min_idx, Len(weights))
                                     THEN BoundaryOptimum(weights, energies, min_idx)
                                     ELSE InteriorOptimum(weights, energies, min_idx)}}) :
                   min_idx \in {ArgMin(energies)}})

\* one pass of the outer loop, for the lung condition of position j
ConditionPass(prev, weights, depth, j) ==
    TheOne({
       IF w.raised
       THEN [caller |-> w.caller, raised |-> TRUE, results |-> prev.results]
       ELSE TheOne({
              IF f.raised
              THEN [caller |-> w.caller, raised |-> TRUE, results |-> prev.results]
              ELSE [caller |-> w.caller, raised |-> FALSE,
                    results |-> Append(prev.results,
                                       [weights |-> f.weights,
                                        energies |-> f.energies,
                                        optimal_weight |-> f.optimal_weight,
                                        minimum_energy |-> f.minimum_energy])] :
              f \in {FindOptimum(weights, w.energies)}}) :
       w \in {WeightLoop(prev.caller, weights, Len(weights), depth, LungConditions[j])}})

\* the outer loop after its first j lung conditions
RECURSIVE ConditionLoop(_, _, _, _)
ConditionLoop(caller, weights, depth, j) ==
    IF j = 0
    THEN [caller |-> caller, raised |-> FALSE, results |-> <<>>]
    ELSE TheOne({IF prev.raised THEN prev
                 ELSE ConditionPass(prev, weights, depth, j) :
                   prev \in {ConditionLoop(caller, weights, depth, j - 1)}})

NoWeightList == [is_none |-> TRUE]

WeightList(ws) == [is_none |-> FALSE, value |-> ws]

\* energy_vs_weight(params, depth, weight_list, plot=False).  results[j] is
\* results[LungConditions[j]]; params: the dict handed in, as the call
\* leaves it.
energy_vs_weight(p, depth, weight_list) ==
    TheOne({[raised |-> r.raised, params |-> r.caller, results |-> r.results] :
              r \in {ConditionLoop(p,
                                   IF ~weight_list.is_none THEN weight_list.value
                                   ELSE DefaultWeights,
                                   depth, Len(LungConditions))}})

(***************************************************************************)
(* diving_lead_optimizer.py: optimal_weight_vs_depth                       *)
(***************************************************************************)
\* np.arange(1, max_depth + 1, 0.5), in depth units
SweepDepths(max_depth) ==
    [i \in 1..(StepsPerMetre * (max_depth + 1) - StepsPerMetre) |->
        StepsPerMetre + (i - 1)]

\* one pass of the loop over the swept depths
DepthPass(prev, depth) ==
    TheOne({
       IF r.raised
       THEN [caller |-> r.params, raised |-> TRUE,
             optimal_weights |-> prev.optimal_weights]
       ELSE [caller |-> r.params, raised |-> FALSE,
             optimal_weights |->
                [j \in 1..Len(LungConditions) |->
                    Append(prev.optimal_weights[j], r.results[j].optimal_weight)]] :
       r \in {energy_vs_weight(prev.caller, depth, NoWeightList)}})

\* the loop over the swept depths after its first k depths
RECURSIVE DepthLoop(_, _, _)
DepthLoop(caller, depths, k) ==
    IF k = 0
    THEN [caller |-> caller, raised |-> FALSE,
          optimal_weights |-> [j \in 1..Len(LungConditions) |-> <<>>]]
    ELSE TheOne({IF prev.raised THEN prev ELSE DepthPass(prev, depths[k]) :
                   prev \in {DepthLoop(caller, depths, k - 1)}})

\* optimal_weight_vs_depth(params, max_depth, plot=False)
optimal_weight_vs_depth(p, max_depth) ==
    TheOne({[raised |-> r.raised, params |-> r.caller,
             depths |-> SweepDepths(max_depth),
             optimal_weights |-> r.optimal_weights] :
              r \in {DepthLoop(p, SweepDepths(max_depth),
                               Len(SweepDepths(max_depth)))}})

(***************************************************************************)
(* The caller                                                              *)
(***************************************************************************)
\* the example parameters of freediving.py, with the inputs that vary
ExampleParams(water_type, temperature, lead_weight, y_limit) ==
    [mass |-> 70,
     body_fat_percentage |-> 20,
     lung_volumes |-> [full_lung |-> 65, medium_lung |-> 40, empty_lung |-> 15],
     residual_volume |-> 1500,
     wetsuit_mass |-> 1240,
     wetsuit_density |-> 24,
     snorkel_mask_volume |-> 150,
     lead_weight |-> lead_weight,
     water_type |-> water_type,
     temperature |-> temperature,
     wetsuit_compressibility_factor |-> 16,
     y_limit |-> y_limit]

WaterTypes == {"sea", "fresh"}
Temperatures == {22}
LeadWeights == {0, 8}
YLimits == {GridPoints, 2 * GridPoints, 4 * GridPoints}
\* target depths handed to energy_use and energy_vs_weight (depth units)
TargetDepths == (0 - 1) .. (2 * GridPoints + 1)

Idle == [op |-> "none"]

Init ==
    /\ params \in {ExampleParams(w, t, l, y) :
                      w \in WaterTypes, t \in Temperatures,
                      l \in LeadWeights, y \in YLimits}
    /\ call = Idle
    /\ ret = Idle

Call_plot_net_force_kgf ==
    /\ call = Idle
    /\ \E r \in {plot_net_force_kgf(params)} :
           /\ params' = r.params
           /\ call' = [op |-> "plot_net_force_kgf", params_in |-> params]
           /\ ret' = [depths |-> r.depths, net_force_curves |-> r.net_force_curves]

Call_energy_use ==
    /\ call = Idle
    /\ \E depth \in TargetDepths, i \in 1..Len(LungConditions) :
         \E r \in {energy_use(params, depth, LungConditions[i])} :
             /\ params' = r.params
             /\ call' = [op |-> "energy_use", params_in |-> params,
                         depth |-> depth, lung_condition |-> LungConditions[i]]
             /\ ret' = r

\* weight lists handed to energy_vs_weight
WeightLists ==
    {NoWeightList, WeightList(<<>>), WeightList(<<2>>), WeightList(<<3, 4, 6, 7>>),
     WeightList(<<6, 7, 9, 10>>)}

Call_energy_vs_weight ==
    /\ call = Idle
    /\ \E depth \in TargetDepths, weight_list \in WeightLists :
         \E r \in {energy_vs_weight(params, depth, weight_list)} :
             /\ params' = r.params
             /\ call' = [op |-> "energy_vs_weight", params_in |-> params,
                         depth |-> depth, weight_list |-> weight_list]
             /\ ret' = [raised |-> r.raised, results |-> r.results]

Call_optimal_weight_vs_depth ==
    /\ call = Idle
    /\ \E max_depth \in 0..MaxSweepDepth :
         \E r \in {optimal_weight_vs_depth(params, max_depth)} :
             /\ params' = r.params
             /\ call' = [op |-> "optimal_weight_vs_depth", params_in |-> params,
                         max_depth |-> max_depth]
             /\ ret' = [raised |-> r.raised, depths |-> r.depths,
                        optimal_weights |-> r.optimal_weights]

\* the caller is done with the returned value
Return ==
    /\ call # Idle
    /\ call' = Idle
    /\ ret' = Idle
    /\ UNCHANGED params

Next ==
    \/ Call_plot_net_force_kgf
    \/ Call_energy_use
    \/ Call_energy_vs_weight
    \/ Call_optimal_weight_vs_depth
    \/ Return

Spec == Init /\ [][Next]_vars

(***************************************************************************)
(* The quadratic-fit step of energy_vs_weight as a function of the         *)
(* candidate weights and their sampled energies                            *)
(***************************************************************************)
\* largest candidate weight, largest sampled energy, longest candidate list
MaxFitWeight == 4
MaxFitEnergy == 4
MaxFitLen == 4

\* the strictly increasing candidate lists of length n
IncreasingLists(n) ==
    {w \in [1..n -> 0..MaxFitWeight] : \A i \in 1..(n - 1) : w[i] < w[i + 1]}

InitFit ==
    /\ params = ExampleParams("sea", 22, 0, GridPoints)
    /\ \E n \in 1..MaxFitLen :
          \E w \in IncreasingLists(n) :
             \E e \in [1..n -> 0..MaxFitEnergy] :
                call = [op |-> "fit_input", weights |-> w, energies |-> e]
    /\ ret = Idle

ApplyFit ==
    /\ call.op = "fit_input"
    /\ call' = [call EXCEPT !.op = "fit"]
    /\ ret' = FindOptimum(call.weights, call.energies)
    /\ UNCHANGED params

NextFit == ApplyFit

SpecFit == InitFit /\ [][NextFit]_vars

(***************************************************************************)
(* Properties                                                              *)
(***************************************************************************)
RECURSIVE SumOver(_, _, _)
\* f(lo) + ... + f(hi)
SumOver(f(_), lo, hi) == IF lo > hi THEN 0 ELSE f(lo) + SumOver(f, lo + 1, hi)

\* the depth grid and force curve energy_use works on in the current call
CallGrid == DepthGrid(call.params_in.y_limit)
CallForces ==
    ForceCurves(SetDensity(call.params_in), CallGrid)[call.lung_condition]
\* the number of grid points the target depth selects (a prefix of the grid)
CallSelected == Cardinality({i \in 1..Len(CallGrid) : CallGrid[i] <= call.depth})

EnergyReturned == call.op = "energy_use" /\ ~ret.raised

\* C1: for a target depth that selects at least one grid point, the
\* cumulative energy sequence energy_use builds starts at 0, never decreases
\* from one step of the descent and ascent to the next, and the total it
\* returns is >= 0, whatever the signs of the forces.
C1_CumulativeEnergyMonotone ==
    (call.op = "energy_use" /\ CallSelected >= 1) =>
        /\ ~ret.raised
        /\ ret.cumulative_energy_wh[1] = 0
        /\ \A k \in 1..(Len(ret.cumulative_energy_wh) - 1) :
              ret.cumulative_energy_wh[k] <= ret.cumulative_energy_wh[k + 1]
        /\ ret.value >= 0

\* a dive over a force curve with forces of both signs, with work done on
\* the way down and on the way up
C1_Witness ==
    /\ EnergyReturned
    /\ \E i, j \in 1..Len(ret.relevant_forces) :
          ret.relevant_forces[i] > 0 /\ ret.relevant_forces[j] < 0
    /\ \E k \in 2..Len(ret.relevant_depths) :
          /\ ret.cumulative_energy_wh[k] > ret.cumulative_energy_wh[k - 1]
          /\ ret.value > ret.cumulative_energy_wh[Len(ret.relevant_depths)]

\* C2: when the target depth selects fewer than 2 grid points (none at all
\* for a target above the surface), energy_use returns zero energy and does
\* not fail.
C2_ZeroEnergyOnShortSelection ==
    (call.op = "energy_use" /\ CallSelected < 2) =>
        (~ret.raised /\ ret.value = 0)

FitDone == call.op = "fit" /\ ~ret.raised

\* the position np.argmin reports: the first position of the least energy
IsFirstMinimum(energies, i) ==
    /\ \A j \in 1..Len(energies) : energies[i] <= energies[j]
    /\ \A j \in 1..(i - 1) : energies[j] > energies[i]

\* the minimum is found strictly inside the candidate list
FitInterior ==
    /\ FitDone
    /\ \E i \in 2..(Len(call.weights) - 1) : IsFirstMinimum(call.energies, i)

SameParabola(v, m, xi, yi, xj, yj) ==
    LET di == RatSub(RatInt(xi), v)
        dj == RatSub(RatInt(xj), v)
    IN  RatMul(RatSub(RatInt(yi), m), RatMul(dj, dj))
          = RatMul(RatSub(RatInt(yj), m), RatMul(di, di))

\* C4: in the interior case the reported optimal weight and minimum energy
\* are the vertex of the one parabola through the minimum sample and its
\* two neighbours; weights [1,2,3] with energies [4,1,4] give 2 and 1.
C4_InteriorIsParabolaVertex ==
    FitDone =>
        /\ \A i \in 2..(Len(call.weights) - 1) :
              IsFirstMinimum(call.energies, i) =>
                 /\ RatFinite(ret.optimal_weight)
                 /\ RatFinite(ret.minimum_energy)
                 /\ \A j, k \in {i - 1, i, i + 1} :
                       SameParabola(ret.optimal_weight, ret.minimum_energy,
                                    call.weights[j], call.energies[j],
                                    call.weights[k], call.energies[k])
        /\ (call.weights = <<1, 2, 3>> /\ call.energies = <<4, 1, 4>>) =>
              (ret.optimal_weight = RatInt(2) /\ ret.minimum_energy = RatInt(1))

\* the fit of the example
C4_Witness ==
    /\ FitInterior
    /\ call.weights = <<1, 2, 3>>
    /\ call.energies = <<4, 1, 4>>
    /\ ret.optimal_weight = RatInt(2)

LeastEnergy(energies) ==
    CHOOSE m \in {energies[i] : i \in 1..Len(energies)} :
        \A j \in 1..Len(energies) : m <= energies[j]

\* C5 as stated: whenever the least sampled energy is the energy of the
\* first or of the last candidate, a tie with another candidate included,
\* that candidate and its sampled energy are reported.
C5_BoundaryValueReported ==
    FitDone =>
        \A i \in {1, Len(call.weights)} :
            call.energies[i] = LeastEnergy(call.energies) =>
               \E j \in {1, Len(call.weights)} :
                  /\ call.energies[j] = LeastEnergy(call.energies)
                  /\ ret.optimal_weight = RatInt(call.weights[j])
                  /\ ret.minimum_energy = RatInt(call.energies[j])

\* C5 amended: whenever the first position of the least sampled energy (what
\* np.argmin reports) is the first or the last candidate, that candidate and
\* its sampled energy are reported, without interpolation.
C5_BoundaryArgminReported ==
    FitDone =>
        \A i \in {1, Len(call.weights)} :
            IsFirstMinimum(call.energies, i) =>
               /\ ret.optimal_weight = RatInt(call.weights[i])
               /\ ret.minimum_energy = RatInt(call.energies[i])

\* the minimum is the last of at least three candidates
C5_Witness ==
    /\ FitDone
    /\ Len(call.weights) >= 3
    /\ IsFirstMinimum(call.energies, Len(call.weights))
    /\ ret.optimal_weight = RatInt(call.weights[Len(call.weights)])

\* C6: energy_vs_weight, and optimal_weight_vs_depth through it, leave the
\* dict they were handed as it was: every key, lead_weight among them.
C6_CallerParamsUnchanged ==
    call.op \in {"energy_vs_weight", "optimal_weight_vs_depth"} =>
        params = call.params_in

\* probes of several candidate weights were run on a dict without a density
C6_Witness ==
    /\ call.op = "energy_vs_weight"
    /\ ~ret.raised
    /\ Len(ret.results[1].weights) >= 2
    /\ \E k \in 1..Len(ret.results[1].weights) :
          ret.results[1].weights[k] # params.lead_weight
    /\ "seawater_density" \notin DOMAIN params

\* C7: plot_net_force_kgf with plot=False, and energy_use which calls it,
\* leave the dict they were handed identical to what it was before the call.
C7_ForceProfilePure ==
    call.op \in {"plot_net_force_kgf", "energy_use"} =>
        params = call.params_in

SweepDone == call.op = "optimal_weight_vs_depth" /\ ~ret.raised

\* C8: the sweep covers exactly the depths 1 m, 1.5 m, ... up to max_depth,
\* none beyond max_depth, and returns for each lung condition one optimal
\* weight per swept depth.
C8_SweepWithinMaxDepth ==
    SweepDone =>
        /\ \A i \in 1..Len(ret.depths) :
              /\ ret.depths[i] = StepsPerMetre + (i - 1)
              /\ ret.depths[i] <= StepsPerMetre * call.max_depth
        /\ \A d \in StepsPerMetre..(StepsPerMetre * call.max_depth) :
              \E i \in 1..Len(ret.depths) : ret.depths[i] = d
        /\ \A j \in 1..Len(LungConditions) :
              Len(ret.optimal_weights[j]) = Len(ret.depths)

\* the diver without lead floats at the surface, for every lung condition
PositiveSurfaceBuoyancy(p) ==
    \A c \in DOMAIN p.lung_volumes :
        NetForce(SetDensity([p EXCEPT !.lead_weight = 0]), p.lung_volumes[c], 0) > 0

\* every swept depth reaches the second point of the depth grid
SweepOnGrid == \A i \in 1..Len(ret.depths) : ret.depths[i] >= CallGrid[2]

\* C9 as stated: for a diver who floats at the surface the optimal weights
\* of a lung condition never decrease from one swept depth to the next.
C9_OptimalWeightNonDecreasing ==
    (SweepDone /\ PositiveSurfaceBuoyancy(call.params_in)) =>
        \A j \in 1..Len(LungConditions) :
            \A i \in 1..(Len(ret.depths) - 1) :
                RatLeq(ret.optimal_weights[j][i], ret.optimal_weights[j][i + 1])

\* C9 amended: for a diver who floats at the surface, and a sweep whose
\* depths all reach the second point of the depth grid, the optimal weights
\* of a lung condition never increase from one swept depth to the next.
C9_OptimalWeightNonIncreasing ==
    (SweepDone /\ PositiveSurfaceBuoyancy(call.params_in) /\ SweepOnGrid) =>
        \A j \in 1..Len(LungConditions) :
            \A i \in 1..(Len(ret.depths) - 1) :
                RatLeq(ret.optimal_weights[j][i + 1], ret.optimal_weights[j][i])

\* a sweep over several depths along which an optimal weight drops
C9_Witness ==
    /\ SweepDone
    /\ PositiveSurfaceBuoyancy(call.params_in)
    /\ SweepOnGrid
    /\ Len(ret.depths) >= 4
    /\ \A j \in 1..Len(LungConditions) :
          ~RatLeq(ret.optimal_weights[j][1], ret.optimal_weights[j][Len(ret.depths)])

\* the work the forces F over the first n grid depths d cost on the way
\* down (force at the shallower end, when positive) and on the way up
\* (force at the deeper end, when negative)
RoundTripWork(d, F, n) ==
    SumOver(LAMBDA i : Max(F[i], 0) * (d[i + 1] - d[i]), 1, n - 1)
      + SumOver(LAMBDA i : Max(-F[i], 0) * (d[i] - d[i - 1]), 2, n)

\* C10: the total energy_use returns is 9.81 / 3600 times the round-trip
\* work over the selected grid depths, and the ascent visits the depths of
\* the descent in reverse order, back to the shallowest.
C10_TotalIsRoundTripWork ==
    EnergyReturned =>
        /\ ret.value * JoulesPerWh
              = WhScale * Gravity100 * RoundTripWork(CallGrid, CallForces, CallSelected)
        /\ ret.combined_depths
              = [k \in 1..(2 * CallSelected - 1) |->
                    IF k <= CallSelected THEN CallGrid[k]
                    ELSE CallGrid[2 * CallSelected - k]]

\* a dive over at least three grid depths that costs work both ways
C10_Witness ==
    /\ EnergyReturned
    /\ CallSelected >= 3
    /\ SumOver(LAMBDA i : Max(CallForces[i], 0), 1, CallSelected - 1) > 0
    /\ SumOver(LAMBDA i : Max(-CallForces[i], 0), 2, CallSelected) > 0


=============================================================================
